---- MODULE Spec2Model ----
(***************************************************************************)
(* State-machine model of cxroots.ApproximateRoots.approximate_roots      *)
(* (src/cxroots/ApproximateRoots.py).                                      *)
(*                                                                         *)
(* One behaviour is one call.  The numerical collaborators (the moment     *)
(* oracle `prod`, the generalized eigenvalue solve, the Vandermonde solve, *)
(* C.contains) are inputs: every value they can hand back is drawn from a  *)
(* small set.  Complex points are the grid points 0..MaxPoint of the real  *)
(* axis; unrounded multiplicities are pairs (re, im) counted in units of   *)
(* 1/Scale.                                                                *)
(***************************************************************************)
EXTENDS Integers, Sequences, FiniteSets, TLC

\* ---------------------------------------------------------------- bounds
MaxN == 3
MaxLoopN == 4
MaxPoint == 2
MaxRootTol == 2
MaxErrStop == 1
Scale == 20

Points == 0..MaxPoint

\* integerTol = 0.1 (the default) and 0.4, in units of 1/Scale
IntegerTols == {Scale \div 10, (2 * Scale) \div 5}

\* real parts the Vandermonde solve may produce for the free entries
MultVals == {0 - Scale, 0, Scale, Scale + 1, Scale + ((7 * Scale) \div 20)}

\* imaginary parts the Vandermonde solve may produce
ImVals == {0, 1, (2 * Scale) \div 5}

VARIABLES
    pc,          \* position of the call
    N,           \* argument N
    intMethod,   \* argument intMethod
    rootTol,     \* argument rootTol (grid units)
    integerTol,  \* argument integerTol (units of 1/Scale)
    errStop,     \* argument errStop (moment units)
    cacheDiv,    \* log2(len(C.segments[0]._trapValuesCache[f]) - 1)
    C_numberOfDivisionsForN,  \* contour attribute _numberOfDivisionsForN
    C_numberOfRoots,          \* contour attribute _numberOfRoots
    phiZeros,    \* local phiZeros; phiZeros[i+1] is the code's phiZeros[i]
    r, t,        \* locals r, t
    lastKind,    \* classification made by the last loop iteration
    stopMoments, \* abs(ip)+err of the stopping moments of the last iteration
    iters,       \* number of loop iterations run
    roots,       \* local roots
    nRemoved,    \* len(removeList)
    solved,      \* local multiplicities as solved (unrounded)
    retRoots,    \* returned roots
    retMult,     \* returned multiplicities
    errArgs,     \* argument carried by MultiplicityError
    caught,      \* the except clause was entered
    outcome      \* how the call ended

vars == <<pc, N, intMethod, rootTol, integerTol, errStop, cacheDiv,
          C_numberOfDivisionsForN, C_numberOfRoots, phiZeros, r, t, lastKind,
          stopMoments, iters, roots, nRemoved, solved, retRoots, retMult,
          errArgs, caught, outcome>>

\* ------------------------------------------------------------- helpers
Abs(x) == IF x < 0 THEN 0 - x ELSE x

Last(s) == s[Len(s)]

RECURSIVE SumSeq(_)
SumSeq(s) == IF s = <<>> THEN 0 ELSE s[1] + SumSeq(Tail(s))

\* C.contains(z): the contour encloses the grid points 0 and 1
Contains(z) == z \in {0, 1}

\* np.all([C.contains(z) for z in polyRoots])
AllContained(polyRoots) == \A i \in DOMAIN polyRoots : Contains(polyRoots[i])

\* while r+t<N
LoopCondOff(rr, tt, n) == rr + tt <= n
LoopCond(rr, tt, n) == rr + tt < n

\* t += 1 ; np.append(phiZeros[t], phiZeros[r])   (tt is t after the increment)
InnerZerosStale(pz, rr, tt) == pz[tt] \o pz[rr + 1]
InnerZeros(pz, rr, tt) == pz[tt + 1] \o pz[rr + 1]

\* for j in range(N-r): if abs(ip) + err > errStop: allSmall = False; break
RECURSIVE AllSmallFrom(_, _, _)
AllSmallFrom(sm, j, es) ==
    IF j > Len(sm) THEN TRUE
    ELSE IF sm[j] > es THEN FALSE
    ELSE AllSmallFrom(sm, j + 1, es)

AllSmallFirstOnly(sm, es) == Len(sm) = 0 \/ ~(sm[1] > es)
AllSmall(sm, es) == AllSmallFrom(sm, 1, es)

\* if len(roots[i+1:]) > 0 and np.any(np.abs(root-roots[i+1:]) < rootTol)
InRemoveListNextOnly(rs, i, tol) ==
    /\ i < Len(rs)
    /\ Abs(rs[i] - rs[i + 1]) < tol
InRemoveList(rs, i, tol) ==
    /\ i < Len(rs)
    /\ \E j \in (i + 1)..Len(rs) : Abs(rs[i] - rs[j]) < tol

\* removeList, built index by index
RECURSIVE RemoveListFrom(_, _, _)
RemoveListFrom(rs, i, tol) ==
    IF i > Len(rs) THEN <<>>
    ELSE IF InRemoveList(rs, i, tol)
         THEN <<i>> \o RemoveListFrom(rs, i + 1, tol)
         ELSE RemoveListFrom(rs, i + 1, tol)

RemoveList(rs, tol) == RemoveListFrom(rs, 1, tol)

\* np.delete(arr, idx): the entries whose index is not in idx, in order
RECURSIVE DeleteFrom(_, _, _)
DeleteFrom(arr, idx, i) ==
    IF i > Len(arr) THEN <<>>
    ELSE IF i \in idx THEN DeleteFrom(arr, idx, i + 1)
    ELSE <<arr[i]>> \o DeleteFrom(arr, idx, i + 1)

Delete(arr, idx) == DeleteFrom(arr, idx, 1)

SeqRange(s) == {s[i] : i \in DOMAIN s}

\* np.round of a real part x/Scale: nearest integer, halves to the even one
RoundReal(x) ==
    LET q   == x \div Scale
        rem == x % Scale
    IN  IF 2 * rem < Scale THEN q
        ELSE IF 2 * rem > Scale THEN q + 1
        ELSE IF q % 2 = 0 THEN q ELSE q + 1

\* rounded_multiplicities = np.array([int(m.real) for m in np.round(multiplicities)])
Rounded(mult) == [i \in DOMAIN mult |-> RoundReal(mult[i].re)]

\* the test of line 248
IntegerCheckRealOnly(mult, tol) ==
    \A i \in DOMAIN mult : Abs(Rounded(mult)[i] * Scale - mult[i].re) < tol
IntegerCheck(mult, tol) ==
    /\ \A i \in DOMAIN mult : Abs(Rounded(mult)[i] * Scale - mult[i].re) < tol
    /\ \A i \in DOMAIN mult : Abs(mult[i].im) < tol

\* zeroArgs = np.where(multiplicities == 0)
ZeroArgs(m) == {i \in DOMAIN m : m[i] = 0}

\* multiplicities = np.dot(s, np.linalg.inv(V)) with s[0] = N and V[:,0] = 1:
\* the entries sum to N; the other moments are free, so are n-1 entries
SolvedVectors(n, total) ==
    IF n = 1 THEN {<<[re |-> total * Scale, im |-> 0]>>}
    ELSE { [i \in 1..n |->
              IF i < n
              THEN [re |-> free[i], im |-> IF i = 1 THEN a ELSE 0]
              ELSE [re |-> total * Scale - SumSeq(free), im |-> 0 - a]]
           : free \in [1..(n - 1) -> MultVals], a \in ImVals }

\* if intMethod == 'romb': C._numberOfDivisionsForN = int(np.log2(len(vals)-1))
EntryDivisionsAlways(method, div, old) == div
EntryDivisions(method, div, old) == IF method = "romb" THEN div ELSE old

\* callback: numberOfDiv > C._numberOfDivisionsForN, then the call of
\* C.count_roots reads the name NAbsTol, bound in no scope
CallbackOutcome(div, divForN) == IF div > divForN THEN "NameError" ELSE "none"

\* except NumberOfRootsChanged: the test reads the name M, bound in no scope
HandlerOutcome == "NameError"

\* the values scipy.linalg.eig(...)[0]+mu can take: p+1 grid points
PolyRoots(p) == [1..(p + 1) -> Points]

\* the candidates that pass the test of line 165 all lie in the contour
RegularPolyRoots(p) == {polyRoots \in PolyRoots(p) : AllContained(polyRoots)}

\* some candidate fails the test of line 165
SomeInnerPolyRoots(p) == ~(\A polyRoots \in PolyRoots(p) : AllContained(polyRoots))

\* the loop is left by break, or by its condition; then line 200
AfterPass(broke, rr, tt, n) ==
    IF broke \/ ~LoopCond(rr, tt, n) THEN "dedup" ELSE "loop"

\* ---------------------------------------------------------------- Init
\* The call's arguments.  The sample cache holds what the root count left
\* (3 values, one division); 0 is _numberOfDivisionsForN before the call.
Init ==
    /\ pc = "start"
    /\ N \in 0..MaxN
    /\ intMethod \in {"quad", "romb"}
    /\ rootTol \in 1..MaxRootTol
    /\ integerTol \in IntegerTols
    /\ errStop \in 0..MaxErrStop
    /\ cacheDiv = 1
    /\ C_numberOfDivisionsForN = 0
    /\ C_numberOfRoots = N
    /\ phiZeros = <<>>
    /\ r = 0
    /\ t = 0
    /\ lastKind = "none"
    /\ stopMoments = <<>>
    /\ iters = 0
    /\ roots = <<>>
    /\ nRemoved = 0
    /\ solved = <<>>
    /\ retRoots = <<>>
    /\ retMult = <<>>
    /\ errArgs = <<>>
    /\ caught = FALSE
    /\ outcome = "running"

\* the same call with larger N and the default tolerances, for the FOP loop
InitLoop ==
    /\ pc = "start"
    /\ N \in 0..MaxLoopN
    /\ intMethod \in {"quad", "romb"}
    /\ rootTol = 1
    /\ integerTol = Scale \div 10
    /\ errStop \in 0..MaxErrStop
    /\ cacheDiv = 1
    /\ C_numberOfDivisionsForN = 0
    /\ C_numberOfRoots = N
    /\ phiZeros = <<>>
    /\ r = 0
    /\ t = 0
    /\ lastKind = "none"
    /\ stopMoments = <<>>
    /\ iters = 0
    /\ roots = <<>>
    /\ nRemoved = 0
    /\ solved = <<>>
    /\ retRoots = <<>>
    /\ retMult = <<>>
    /\ errArgs = <<>>
    /\ caught = FALSE
    /\ outcome = "running"

\* ------------------------------------------------------------- actions
\* lines 82-83
ReturnEmpty ==
    /\ pc = "start"
    /\ N = 0
    /\ pc' = "done"
    /\ outcome' = "ok"
    /\ UNCHANGED <<N, intMethod, rootTol, integerTol, errStop, cacheDiv,
                   C_numberOfDivisionsForN, C_numberOfRoots, phiZeros, r, t,
                   lastKind, stopMoments, iters, roots, nRemoved, solved,
                   retRoots, retMult, errArgs, caught>>

\* lines 85-115
Entry ==
    /\ pc = "start"
    /\ N # 0
    /\ C_numberOfDivisionsForN' =
           EntryDivisions(intMethod, cacheDiv, C_numberOfDivisionsForN)
    /\ pc' = "try"
    /\ UNCHANGED <<N, intMethod, rootTol, integerTol, errStop, cacheDiv,
                   C_numberOfRoots, phiZeros, r, t, lastKind, stopMoments,
                   iters, roots, nRemoved, solved, retRoots, retMult, errArgs,
                   caught, outcome>>

\* lines 118-141 (and line 200 when the loop is not entered)
InitFOP ==
    /\ pc = "try"
    /\ \E mu \in Points :
          /\ phiZeros' = << <<>>, <<mu>> >>
          /\ r' = 1
          /\ t' = 0
          /\ pc' = AfterPass(FALSE, 1, 0, N)
          /\ roots' = IF pc' = "dedup" THEN Last(phiZeros') ELSE roots
    /\ UNCHANGED <<N, intMethod, rootTol, integerTol, errStop, cacheDiv,
                   C_numberOfDivisionsForN, C_numberOfRoots, lastKind,
                   stopMoments, iters, nRemoved, solved, retRoots, retMult,
                   errArgs, caught, outcome>>

\* lines 141-200: one pass of the while loop, and line 200 when it is the last
Iterate ==
    /\ pc = "loop"
    /\ LoopCond(r, t, N)
    /\ LET p == r + t IN
          \/ \E polyRoots \in RegularPolyRoots(p) :
             \E sm \in [1..(N - (p + 1)) -> 0..(MaxErrStop + 1)] :
                /\ phiZeros' = Append(phiZeros, polyRoots)
                /\ r' = r + t + 1
                /\ t' = 0
                /\ lastKind' = "regular"
                /\ stopMoments' = sm
                /\ pc' = AfterPass(AllSmall(sm, errStop), r', t', N)
          \/ /\ SomeInnerPolyRoots(p)
             /\ t' = t + 1
             /\ r' = r
             /\ phiZeros' = Append(phiZeros, InnerZeros(phiZeros, r, t'))
             /\ lastKind' = "inner"
             /\ stopMoments' = <<>>
             /\ pc' = AfterPass(FALSE, r', t', N)
    /\ roots' = IF pc' = "dedup" THEN Last(phiZeros') ELSE roots
    /\ iters' = iters + 1
    /\ UNCHANGED <<N, intMethod, rootTol, integerTol, errStop, cacheDiv,
                   C_numberOfDivisionsForN, C_numberOfRoots, nRemoved, solved,
                   retRoots, retMult, errArgs, caught, outcome>>

\* lines 206-218; phiZeros, r, t are not read after line 200
Dedup ==
    /\ pc = "dedup"
    /\ LET removeList == RemoveList(roots, rootTol) IN
          /\ roots' = Delete(roots, SeqRange(removeList))
          /\ nRemoved' = Len(removeList)
    /\ phiZeros' = <<>>
    /\ r' = 0
    /\ t' = 0
    /\ lastKind' = "none"
    /\ stopMoments' = <<>>
    /\ iters' = 0
    /\ pc' = "moments"
    /\ UNCHANGED <<N, intMethod, rootTol, integerTol, errStop, cacheDiv,
                   C_numberOfDivisionsForN, C_numberOfRoots, solved, retRoots,
                   retMult, errArgs, caught, outcome>>

\* lines 221-265
SolveValidate ==
    /\ pc = "moments"
    /\ \E mult \in SolvedVectors(Len(roots), N) :
          /\ solved' = mult
          /\ IF IntegerCheck(mult, integerTol)
             THEN LET m == Rounded(mult) IN
                     /\ retMult' = Delete(m, ZeroArgs(m))
                     /\ retRoots' = Delete(roots, ZeroArgs(m))
                     /\ errArgs' = errArgs
                     /\ outcome' = "ok"
             ELSE /\ errArgs' = mult
                  /\ outcome' = "MultiplicityError"
                  /\ UNCHANGED <<retRoots, retMult>>
    /\ pc' = "done"
    /\ UNCHANGED <<N, intMethod, rootTol, integerTol, errStop, cacheDiv,
                   C_numberOfDivisionsForN, C_numberOfRoots, phiZeros, r, t,
                   lastKind, stopMoments, iters, roots, nRemoved, caught>>

\* a call of product is pending: lines 118/135, 147/151/177, 226
ProductPending ==
    \/ pc = "try"
    \/ pc = "loop"
    \/ pc = "moments" /\ Len(roots) > 1

\* lines 90-96: under 'romb' a product call samples f anew and runs callback
ProductGrowth ==
    /\ intMethod = "romb"
    /\ ProductPending
    /\ cacheDiv' = cacheDiv + 1
    /\ CallbackOutcome(cacheDiv', C_numberOfDivisionsForN) = "NameError"
    /\ outcome' = "NameError"
    /\ pc' = "done"
    /\ UNCHANGED <<N, intMethod, rootTol, integerTol, errStop,
                   C_numberOfDivisionsForN, C_numberOfRoots, phiZeros, r, t,
                   lastKind, stopMoments, iters, roots, nRemoved, solved,
                   retRoots, retMult, errArgs, caught>>

\* The moment oracle (CountRoots.prod, whose source is not at hand) signals
\* that the assumed root count is stale: NumberOfRootsChanged leaves the try
\* block (specification, section 2 and 4.4).
ProdSignalsStale ==
    /\ intMethod = "romb"
    /\ ProductPending
    /\ pc' = "except"
    /\ UNCHANGED <<N, intMethod, rootTol, integerTol, errStop, cacheDiv,
                   C_numberOfDivisionsForN, C_numberOfRoots, phiZeros, r, t,
                   lastKind, stopMoments, iters, roots, nRemoved, solved,
                   retRoots, retMult, errArgs, caught, outcome>>

\* lines 267-272
Handler ==
    /\ pc = "except"
    /\ caught' = TRUE
    /\ outcome' = HandlerOutcome
    /\ pc' = "done"
    /\ UNCHANGED <<N, intMethod, rootTol, integerTol, errStop, cacheDiv,
                   C_numberOfDivisionsForN, C_numberOfRoots, phiZeros, r, t,
                   lastKind, stopMoments, iters, roots, nRemoved, solved,
                   retRoots, retMult, errArgs>>

Next ==
    \/ ReturnEmpty
    \/ Entry
    \/ InitFOP
    \/ Iterate
    \/ Dedup
    \/ SolveValidate
    \/ ProductGrowth
    \/ ProdSignalsStale
    \/ Handler

Spec == Init /\ [][Next]_vars

SpecLoop == InitLoop /\ [][Next]_vars

\* ------------------------------------------------------------- claims
Returned == pc = "done" /\ outcome = "ok"

\* |a - b| >= tol for every pair of distinct positions of rs
PairwiseFar(rs, tol) ==
    \A i, j \in DOMAIN rs : i # j => Abs(rs[i] - rs[j]) >= tol

\* the positions of rs with no later entry within tol
KeptPositions(rs, tol) ==
    {i \in DOMAIN rs : \A j \in DOMAIN rs : j > i => Abs(rs[i] - rs[j]) >= tol}

\* out lists the entries of rs at the positions keep, in their order
ListsPositions(out, rs, keep) ==
    /\ Len(out) = Cardinality(keep)
    /\ \A i \in keep : out[Cardinality({k \in keep : k <= i})] = rs[i]

\* distance from x/Scale to the nearest integer, in units of 1/Scale
DistToInteger(x) ==
    LET rem == x % Scale IN IF rem < Scale - rem THEN rem ELSE Scale - rem

\* some entry of v is not within tol of an integer
NotIntegers(v, tol) ==
    \E i \in DOMAIN v : DistToInteger(v[i].re) >= tol \/ Abs(v[i].im) >= tol

\* C1: every call that returns has multiplicities that sum to N.
C1_CountConservation == Returned => SumSeq(retMult) = N

\* C2: every multiplicity a call returns is an integer >= 1.
C2_PositiveMultiplicities ==
    Returned => \A i \in DOMAIN retMult : retMult[i] >= 1

\* C3: every root a call returns lies inside the contour.
C3_Containment ==
    Returned => \A i \in DOMAIN retRoots : Contains(retRoots[i])

\* C4: the deduplication pass keeps exactly the entries of the raw zero-set
\* that have no later entry within rootTol; the roots it leaves, and the roots
\* returned after the zero multiplicities are pruned, are pairwise at least
\* rootTol apart.
C4_Distinctness ==
    /\ [](pc \in {"moments", "done"} =>
            PairwiseFar(roots, rootTol) /\ PairwiseFar(retRoots, rootTol))
    /\ [][(pc = "dedup" /\ pc' = "moments") =>
            ListsPositions(roots', roots, KeptPositions(roots, rootTol))]_vars

C4_Witness ==
    /\ Returned
    /\ nRemoved >= 1
    /\ Len(retRoots) >= 2

\* C5: once the except clause for NumberOfRootsChanged is entered the call
\* ends by restarting the approximation or by re-raising the condition.
C5_RetryOrReraise ==
    (pc = "done" /\ caught) => outcome \in {"Restart", "Reraise"}

\* C6: a solved vector with an entry not within integerTol of an integer
\* (real part) or of zero (imaginary part) ends the call with
\* MultiplicityError carrying the unrounded vector; nothing is returned and
\* the except clause is not entered.
C6_AllOrNothing ==
    (pc = "done" /\ solved # <<>> /\ NotIntegers(solved, integerTol)) =>
        /\ outcome = "MultiplicityError"
        /\ errArgs = solved
        /\ retRoots = <<>>
        /\ retMult = <<>>
        /\ ~caught

C6_Witness ==
    /\ pc = "done"
    /\ outcome = "MultiplicityError"
    /\ Len(solved) >= 2
    /\ \E i \in DOMAIN solved :
          DistToInteger(solved[i].re) < integerTol /\ Abs(solved[i].im) < integerTol

C8_LoopTerminates ==
    pc \in {"loop", "dedup"} =>
        /\ r + t <= N
        /\ iters = r + t - 1
        /\ iters <= N - 1
        /\ (pc = "loop" => r + t < N)
        /\ (pc = "dedup" => roots = phiZeros[Len(phiZeros)] /\ outcome = "running")

C8_Witness ==
    /\ pc = "dedup"
    /\ N >= 3
    /\ iters = N - 1
    /\ lastKind = "inner"

C10_DegreeIndexing ==
    /\ pc \in {"loop", "dedup"} =>
          /\ Len(phiZeros) = r + t + 1
          /\ r >= 1
          /\ t >= 0
          /\ \A i \in 1..Len(phiZeros) : Len(phiZeros[i]) = i - 1
          /\ (pc = "loop" => (t + 1) + 1 <= Len(phiZeros) /\ r + 1 <= Len(phiZeros))
    /\ pc \in {"dedup", "moments", "done"} => Len(roots) <= N

C10_Witness ==
    /\ pc = "loop"
    /\ lastKind = "inner"
    /\ t = 2
    /\ Len(phiZeros[Len(phiZeros)]) = r + t

====
